---- MODULE Spec2Model ----
(***************************************************************************)
(* gitcodebot-worker: the content demuxer (_parse_repo_contents), the      *)
(* ingest pipeline (VectorStoreRepoIngestor.ingest) and the queue worker   *)
(* (worker.main), with the vector store and the status store they talk to. *)
(*                                                                         *)
(* A character is a one-character string, a line a sequence of characters, *)
(* a file name a sequence of characters.                                   *)
(***************************************************************************)
EXTENDS Integers, Sequences, FiniteSets, Bags, TLC

\* ------------------------------------------------------------------ bounds
MaxBlocks == 2      \* blocks in a dump
MaxBody == 2        \* body lines in a dump, all blocks together
MaxJobs == 2        \* queue messages for the repository

\* --------------------------------------------------------------- constants
BoundaryWidth == 48
boundary_line == [i \in 1..BoundaryWidth |-> "="]
FilePrefix == <<"F", "I", "L", "E", ":", " ">>

\* Python's None where a name is expected (no name is made of this character)
None == <<"None">>

Range(s) == {s[i] : i \in 1..Len(s)}

\* ----------------------------------------------------------- str helpers
StartsWith(s, p) == Len(s) >= Len(p) /\ SubSeq(s, 1, Len(p)) = p

Whitespace == {" ", "\t", "\n"}

RECURSIVE LStrip(_)
LStrip(s) == IF s # <<>> /\ Head(s) \in Whitespace THEN LStrip(Tail(s)) ELSE s

RECURSIVE RStrip(_)
RStrip(s) ==
    IF s # <<>> /\ s[Len(s)] \in Whitespace THEN RStrip(SubSeq(s, 1, Len(s) - 1)) ELSE s

Strip(s) == RStrip(LStrip(s))

\* '\n'.join(lines)
RECURSIVE Join(_)
Join(lines) ==
    IF lines = <<>> THEN <<>>
    ELSE IF Len(lines) = 1 THEN lines[1]
    ELSE lines[1] \o <<"\n">> \o Join(Tail(lines))

\* ------------------------------------------------------------ the demuxer
\* The locals of _parse_repo_contents, as one record:
\*   file_marker   [0] upper boundary, [1] FILE: header, [2] lower boundary
\*   file_content  body lines accumulated for the open block
\*   file_name     name of the open block, or None
\*   file_dict     keys of the result dict, in insertion order
\*   sourcefiles   staged files under sourcefiles/: name -> text written so far
\*   raised        an exception left the function
NoMarker == <<FALSE, FALSE, FALSE>>

DemuxStart(files) ==
    [file_marker |-> NoMarker, file_content |-> <<>>, file_name |-> None,
     file_dict |-> <<>>, extension |-> <<>>, sourcefiles |-> files, raised |-> FALSE]

\* open(path, 'a').write(text): append to the staged file, creating it
AppendFile(files, name, text) ==
    IF name \in DOMAIN files
    THEN [files EXCEPT ![name] = @ \o text]
    ELSE [n \in DOMAIN files \cup {name} |-> IF n = name THEN text ELSE files[n]]

\* str.rfind(c), counting from 1: 0 when c is not in s
RFind(s, c) ==
    IF \A i \in 1..Len(s) : s[i] # c THEN 0
    ELSE CHOOSE i \in 1..Len(s) : s[i] = c /\ \A j \in (i + 1)..Len(s) : s[j] # c

\* os.path.splitext(p)[1]: from the last dot of the last path component, if
\* something other than dots comes before it in that component
SplitExt(p) ==
    LET sepIndex == RFind(p, "/")
        dotIndex == RFind(p, ".")
    IN IF dotIndex > sepIndex /\ \E i \in (sepIndex + 1)..(dotIndex - 1) : p[i] # "."
       THEN SubSeq(p, dotIndex, Len(p))
       ELSE <<>>

\* file_dict[file_name]['extension'] = ...
SetExtension(e, name) ==
    [n \in DOMAIN e \cup {name} |-> IF n = name THEN SplitExt(name) ELSE e[n]]

\* file_dict[file_name] = {...}: a new key goes last, an old key keeps its place
DictSet(d, name) == IF name \in Range(d) THEN d ELSE Append(d, name)

\* os.path.join(.., "sourcefiles/", "") is the directory itself, "." and ".."
\* name directories too: open() raises IsADirectoryError
WriteRaises(name) == name \in {<<>>, <<".">>, <<".", ".">>}

MaterializeBare(st) ==
    IF WriteRaises(st.file_name)
    THEN [st EXCEPT !.raised = TRUE]
    ELSE [st EXCEPT
            !.sourcefiles = AppendFile(@, st.file_name, Join(st.file_content)),
            !.file_dict = DictSet(@, st.file_name),
            !.extension = SetExtension(@, st.file_name)]

\* lines 217-226 and 248-257: write the body, record the file
Materialize(st) ==
    IF WriteRaises(st.file_name)
    THEN [st EXCEPT !.raised = TRUE]
    ELSE [st EXCEPT
            !.sourcefiles = AppendFile(@, st.file_name, Join(st.file_content) \o <<"\n">>),
            !.file_dict = DictSet(@, st.file_name),
            !.extension = SetExtension(@, st.file_name)]

ResetFlagsOnly(st) == [st EXCEPT !.file_marker = NoMarker]

\* lines 230-232
ResetBlock(st) ==
    [st EXCEPT !.file_marker = NoMarker, !.file_content = <<>>, !.file_name = None]

\* lines 209-233: a boundary line
OnBoundary(st) ==
    LET m == st.file_marker IN
    IF TRUE \notin Range(m) THEN [st EXCEPT !.file_marker[1] = TRUE]
    ELSE IF m[1] /\ m[2] /\ ~m[3] THEN [st EXCEPT !.file_marker[3] = TRUE]
    ELSE IF m[1] /\ m[2] /\ m[3] THEN
        LET w == Materialize(st) IN IF w.raised THEN w ELSE ResetBlock(w)
    ELSE st

IsHeaderAnywhere(st, line) == st.file_marker[1] /\ StartsWith(line, FilePrefix)

\* line 235
IsHeader(st, line) ==
    st.file_marker[1] /\ ~st.file_marker[2] /\ StartsWith(line, FilePrefix)

\* lines 207-245: one line of the dump
DemuxLine(st, line) ==
    IF line = boundary_line THEN OnBoundary(st)
    ELSE IF IsHeader(st, line) THEN
        [st EXCEPT !.file_name = Strip(SubSeq(line, Len(FilePrefix) + 1, Len(line))),
                   !.file_marker[2] = TRUE]
    ELSE IF st.file_marker[1] /\ st.file_marker[2] /\ st.file_marker[3] THEN
        [st EXCEPT !.file_content = Append(@, line)]
    ELSE st

NoFlush(st) == FALSE

\* line 247: `if file_name and file_content`
FlushNeeded(st) ==
    st.file_name # None /\ st.file_name # <<>> /\ st.file_content # <<>>

\* lines 247-263: end of input
DemuxEnd(st) == IF FlushNeeded(st) THEN Materialize(st) ELSE st

\* ------------------------------------------------------- dumps, as inputs
NameChars == {"a", "b", "c"}
Names == {<<c>> : c \in NameChars}
\* `FILE: ` with nothing after it names the empty string
HeaderNames == Names \cup {<<>>}
LooksLikeHeader == FilePrefix \o <<"b">>
BodyLines == {<<>>, <<"x">>, LooksLikeHeader}

RECURSIVE SeqsUpTo(_, _)
SeqsUpTo(S, n) ==
    IF n = 0 THEN {<<>>}
    ELSE LET shorter == SeqsUpTo(S, n - 1) IN
         shorter \cup {Append(s, x) : s \in {t \in shorter : Len(t) = n - 1}, x \in S}

Bodies == SeqsUpTo(BodyLines, MaxBody)

RECURSIVE SumLen(_)
SumLen(bs) == IF bs = <<>> THEN 0 ELSE Len(Head(bs)) + SumLen(Tail(bs))

\* a block: its name as `FILE: <name>` gives it, and its body lines
BlockSeqs ==
    UNION {{bs \in [1..n -> [name : HeaderNames, body : Bodies]] :
                SumLen([i \in 1..n |-> bs[i].body]) <= MaxBody} : n \in 0..MaxBlocks}

HeaderLine(name, pad) == FilePrefix \o name \o pad

\* boundary / FILE: name / boundary / body / boundary
RECURSIVE RenderSeparate(_, _)
RenderSeparate(bs, pad) ==
    IF bs = <<>> THEN <<>>
    ELSE <<boundary_line, HeaderLine(bs[1].name, pad), boundary_line>> \o bs[1].body
         \o <<boundary_line>> \o RenderSeparate(Tail(bs), pad)

\* the closing boundary of a block is the opening boundary of the next one
RECURSIVE RenderSharedTail(_, _)
RenderSharedTail(bs, pad) ==
    IF bs = <<>> THEN <<>>
    ELSE <<HeaderLine(bs[1].name, pad), boundary_line>> \o bs[1].body
         \o <<boundary_line>> \o RenderSharedTail(Tail(bs), pad)

RenderShared(bs, pad) ==
    IF bs = <<>> THEN <<>> ELSE <<boundary_line>> \o RenderSharedTail(bs, pad)

\* closed = FALSE: the last closing boundary is missing
Render(s) ==
    LET pad == IF s.padded THEN <<" ">> ELSE <<>>
        all == IF s.layout = "shared" THEN RenderShared(s.blocks, pad)
               ELSE RenderSeparate(s.blocks, pad)
    IN IF s.closed \/ all = <<>> THEN all ELSE SubSeq(all, 1, Len(all) - 1)

Shapes ==
    {s \in [blocks : BlockSeqs, layout : {"separate", "shared"},
            closed : BOOLEAN, padded : BOOLEAN] :
        s.blocks = <<>> => (s.closed /\ ~s.padded /\ s.layout = "separate")}

BlockNames(bs) == {bs[i].name : i \in 1..Len(bs)}
DistinctNames(bs) == Cardinality(BlockNames(bs)) = Len(bs)
\* every block has a name, and no two blocks the same one
WellFormed(bs) == DistinctNames(bs) /\ <<>> \notin BlockNames(bs)

\* file names with dots and letters of both cases, for the extension
MaxName == 3
ExtChars == {"r", ".", "m", "M"}
ExtNames == SeqsUpTo(ExtChars, MaxName) \ {<<>>}
ExtShapes ==
    [blocks : {<<[name |-> n, body |-> b]>> : n \in ExtNames, b \in {<<>>, << <<"x">> >>}},
     layout : {"separate"}, closed : {TRUE}, padded : BOOLEAN]

\* ----------------------------------------------------------- the pipeline
Workers == {"w1", "w2"}
RepoUrl == <<"h", "t", "t", "p", "s", ":", "/", "/", "g", "i", "t", "h", "u", "b", ".",
             "c", "o", "m", "/", "o", "/", "n">>
\* what the queue can hold: the URL as the status store has it, the same with
\* a trailing slash, and a message without any slash
QueueUrls == {RepoUrl, RepoUrl \o <<"/">>, <<"n">>}
Owner == <<"o">>
Name == <<"n">>

\* str.rstrip('/')
RECURSIVE RStripSlash(_)
RStripSlash(s) ==
    IF s # <<>> /\ s[Len(s)] = "/" THEN RStripSlash(SubSeq(s, 1, Len(s) - 1)) ELSE s

\* str.split(sep) for a one-character sep: the pieces between the separators
RECURSIVE SplitFrom(_, _, _)
SplitFrom(s, sep, from) ==
    LET at == {i \in from..Len(s) : s[i] = sep} IN
    IF at = {} THEN <<SubSeq(s, from, Len(s))>>
    ELSE LET i == CHOOSE k \in at : \A j \in at : k <= j
         IN <<SubSeq(s, from, i - 1)>> \o SplitFrom(s, sep, i + 1)

SplitOn(s, sep) == SplitFrom(s, sep, 1)

\* git.py 6-18: parts[-2] of a list of one part is an IndexError
ParseRepoUrl(url) ==
    LET parts == SplitOn(RStripSlash(url), "/") IN
    IF Len(parts) < 2 THEN [raised |-> TRUE, owner |-> <<>>, name |-> <<>>]
    ELSE [raised |-> FALSE, owner |-> parts[Len(parts) - 1], name |-> parts[Len(parts)]]

\* platform.py 4: chunk_size
ChunkSize == 1024 * 1024

\* content.txt as gitingest writes it: every line ends with "\n"
RECURSIVE Text(_)
Text(ls) == IF ls = <<>> THEN <<>> ELSE Head(ls) \o <<"\n">> \o Text(Tail(ls))

\* platform.py 15-20: f.read(chunk_size) until it gives nothing
ChunkRead(content, size) ==
    [i \in 1..((Len(content) + size - 1) \div size) |->
        SubSeq(content, (i - 1) * size + 1,
               IF i * size < Len(content) THEN i * size ELSE Len(content))]

\* str.splitlines() of a text whose only line break is "\n": no empty last
\* line after a final "\n"
SplitLines(s) ==
    LET pieces == SplitOn(s, "\n") IN
    IF pieces[Len(pieces)] = <<>> THEN SubSeq(pieces, 1, Len(pieces) - 1) ELSE pieces

\* f"{self.repo_owner}.{self.repo_name}" for Owner and Name
Namespace == "o.n"

\* content.txt is not there
NoFile == << <<"NoFile">> >>

\* _parse_repo_contents as a whole: the lines in order, then the end of input
RECURSIVE DemuxAll(_, _)
DemuxAll(st, ls) ==
    IF st.raised THEN st
    ELSE IF ls = <<>> THEN DemuxEnd(st)
    ELSE DemuxAll(DemuxLine(st, Head(ls)), Tail(ls))

ParseRepoContents(content, files) == DemuxAll(DemuxStart(files), content)

NoFilesOnlyNone(content, fd) == content = NoFile

\* ingest(), line 20: `if not _file_dict` (None when content.txt is missing,
\* or an empty dict)
NoFiles(content, fd) == content = NoFile \/ fd = <<>>

\* LangChainSplitter.split on a staged text shorter than chunk_size: the
\* splitter strips the text and drops an empty chunk
Split(text) == LET t == Strip(text) IN IF t = <<>> THEN <<>> ELSE <<t>>

UpdateOrInsert(docs, url, st, av) ==
    {d \in docs : d.url # url} \cup {[url |-> url, status |-> st, availableToConsume |-> av]}

\* MongoDBService.update_repo_metadata: update_one only if find_one found it
UpdateRepoMetadata(docs, url, st, av) ==
    {IF d.url = url THEN [d EXCEPT !.status = st, !.availableToConsume = av] ELSE d
        : d \in docs}

\* what the dump provider can hand out for the repository
FileA == [name |-> <<"a">>, body |-> << <<"x">> >>]
FileB == [name |-> <<"b">>, body |-> <<>>]
FileC == [name |-> <<"c">>, body |-> << <<"x">> >>]
Unnamed == [name |-> <<>>, body |-> << <<"x">> >>]
RemoteShapes ==
    {[blocks |-> <<>>, layout |-> "separate", closed |-> TRUE, padded |-> FALSE],
     [blocks |-> <<FileA, FileB, FileC>>, layout |-> "separate", closed |-> TRUE,
      padded |-> FALSE],
     [blocks |-> <<FileB>>, layout |-> "separate", closed |-> FALSE, padded |-> FALSE],
     [blocks |-> <<Unnamed>>, layout |-> "separate", closed |-> TRUE, padded |-> FALSE]}
RemoteDumps == {Render(sh) : sh \in RemoteShapes}

NewRun(existed) ==
    [taken |-> FALSE, url |-> <<>>, existed |-> existed, fetch_raised |-> FALSE,
     parse |-> "pending", decoded |-> 0,
     queries |-> 0, found |-> FALSE, creates |-> 0, created |-> FALSE,
     create_failed |-> FALSE,
     late_create |-> FALSE, chunked |-> 0, chunk_failed |-> {}, failed_at |-> 0,
     submitted |-> {}, upserted |-> {}, writes |-> <<>>, dumps |-> {},
     done |-> FALSE]

\* ------------------------------------------------------ the tree decoder
\* the box-drawing characters of tree.txt, by code point
VBar == "U+2502"
Corner == "U+2514"
Tee == "U+251C"
Dash == "U+2500"
Spaces4 == <<" ", " ", " ", " ">>
BarUnit == <<VBar, " ", " ", " ">>
CornerMarker == <<Corner, Dash, Dash, " ">>
TeeMarker == <<Tee, Dash, Dash, " ">>
Arrow == <<" ", "-", ">", " ">>

\* (?:    |│   )* at the start of the line: how many characters it takes
RECURSIVE PrefixLen(_)
PrefixLen(line) ==
    IF Len(line) >= 4 /\ SubSeq(line, 1, 4) \in {Spaces4, BarUnit}
    THEN 4 + PrefixLen(SubSeq(line, 5, Len(line)))
    ELSE 0

\* line_re.match(line): the prefix, one of the two markers, a name of one
\* character or more
LineRe(line) ==
    LET p == PrefixLen(line)
        rest == SubSeq(line, p + 1, Len(line))
    IN IF Len(rest) > 4 /\ SubSeq(rest, 1, 4) \in {CornerMarker, TeeMarker}
       THEN [matched |-> TRUE, prefix |-> SubSeq(line, 1, p),
             name |-> SubSeq(rest, 5, Len(rest))]
       ELSE [matched |-> FALSE, prefix |-> <<>>, name |-> <<>>]

\* name.split(' -> ', 1)[0]
BeforeArrow(name) ==
    LET at == {i \in 1..(Len(name) - 3) : SubSeq(name, i, i + 3) = Arrow} IN
    IF at = {} THEN name
    ELSE SubSeq(name, 1, (CHOOSE i \in at : \A j \in at : i <= j) - 1)

\* '/'.join(stack)
RECURSIVE JoinSlash(_)
JoinSlash(stack) ==
    IF stack = <<>> THEN <<>>
    ELSE IF Len(stack) = 1 THEN stack[1]
    ELSE stack[1] \o <<"/">> \o JoinSlash(Tail(stack))

TruncateNever(stack, depth) == stack

\* stack[:depth]
Truncate(stack, depth) ==
    SubSeq(stack, 1, IF depth < Len(stack) THEN depth ELSE Len(stack))

\* lines 159-172: one line of tree.txt
TreeLine(st, line) ==
    LET m == LineRe(line) IN
    IF ~m.matched THEN st
    ELSE LET depth == Len(m.prefix) \div 4
             is_dir == m.name[Len(m.name)] = "/"
             name == BeforeArrow(RStripSlash(m.name))
             pushed == Append(Truncate(st.stack, depth), name)
         IN [stack |-> pushed,
             file_names |-> IF is_dir THEN st.file_names
                            ELSE Append(st.file_names, JoinSlash(pushed))]

\* listings, as inputs: a node has a depth, a name, a target if it is a
\* symlink, and is a directory or not; "junk" is a line indented by three
\* spaces, which the pattern does not match
MaxTreeLines == 3
NodeKinds ==
    {[name |-> <<"a">>, target |-> <<>>, dir |-> FALSE],
     [name |-> <<"d">>, target |-> <<>>, dir |-> TRUE],
     [name |-> <<"l">>, target |-> <<"t">>, dir |-> FALSE],
     [name |-> <<"l">>, target |-> <<"t">>, dir |-> TRUE]}
Junk == [junk |-> TRUE, depth |-> 0,
         kind |-> [name |-> <<"a">>, target |-> <<>>, dir |-> FALSE]]

\* the depth of the last matching line, -1 if there is none
RECURSIVE LastDepth(_)
LastDepth(ns) ==
    IF ns = <<>> THEN -1
    ELSE IF ns[Len(ns)].junk THEN LastDepth(SubSeq(ns, 1, Len(ns) - 1))
    ELSE ns[Len(ns)].depth

\* a line goes at most two levels deeper than the matching line before it
RECURSIVE Listings(_)
Listings(n) ==
    IF n = 0 THEN {<<>>}
    ELSE LET shorter == Listings(n - 1) IN
         shorter \cup
         UNION {{Append(ns, Junk)} \cup
                {Append(ns, [junk |-> FALSE, depth |-> d, kind |-> k]) :
                    d \in 0..(LastDepth(ns) + 2), k \in NodeKinds}
                : ns \in {t \in shorter : Len(t) = n - 1}}

\* the node at level k that line i hangs under has a later sibling
Continues(ns, i, k) ==
    \E j \in (i + 1)..Len(ns) :
        /\ ~ns[j].junk /\ ns[j].depth = k
        /\ \A m \in (i + 1)..(j - 1) : ns[m].junk \/ ns[m].depth > k

RawName(kind) ==
    kind.name \o (IF kind.target = <<>> THEN <<>> ELSE Arrow \o kind.target)
              \o (IF kind.dir THEN <<"/">> ELSE <<>>)

RECURSIVE Units(_, _, _)
Units(ns, i, k) ==
    IF k >= ns[i].depth THEN <<>>
    ELSE (IF Continues(ns, i, k) THEN BarUnit ELSE Spaces4) \o Units(ns, i, k + 1)

\* the text of line i as `tree` draws it
RenderNode(ns, i) ==
    IF ns[i].junk THEN <<" ", " ", " ">> \o CornerMarker \o RawName(ns[i].kind)
    ELSE Units(ns, i, 0)
         \o (IF Continues(ns, i, ns[i].depth) THEN TeeMarker ELSE CornerMarker)
         \o RawName(ns[i].kind)

RenderTree(ns) == [i \in 1..Len(ns) |-> RenderNode(ns, i)]

\* ----------------------------------------------------------------- state
VARIABLES
    src,            \* how content.txt was made (blocks, layout, closed, padded)
    chunks,         \* the chunks of content.txt that chunk_read has yet to yield
    lines,          \* _lines: the lines of the chunk at hand
    lineno,         \* lines consumed by the loop at line 207
    dmx,            \* the locals of _parse_repo_contents
    dpc,            \* "lines", "returned" or "raised"
    queue,          \* the messages waiting in the redis list
    pc,             \* where each worker is in main()
    status,         \* main(): status
    availability,   \* main(): availability
    content_txt,    \* tmp/o/n/content.txt of each worker: NoFile or its lines
    sourcefiles,    \* tmp/o/n/sourcefiles/ of each worker: name -> text
    parsed,         \* ingest(): _file_dict, its keys in insertion order
    idx,            \* position of the loop at line 63 in parsed
    collections,    \* the vector store: collection name -> bag of points
    repositories,   \* the status store: documents of gitcodebot.repositories
    last_update,    \* arguments of the worker's latest update_repo_metadata call
    run,            \* what the worker's current job has done so far
    tsrc,           \* the listing tree.txt was drawn from
    tree_txt,       \* tmp/o/n/tree.txt: NoFile or its lines
    tno,            \* lines consumed by the loop at line 159
    tree,           \* _get_file_names: stack and file_names
    tpc             \* "off", "start", "lines" or "returned"

dvars == <<src, chunks, lines, lineno, dmx, dpc>>
jvars == <<queue, pc, status, availability, content_txt, sourcefiles, parsed, idx,
           collections, repositories, last_update, run>>
tvars == <<tsrc, tree_txt, tno, tree, tpc>>
vars == <<src, chunks, lines, lineno, dmx, dpc, queue, pc, status, availability, content_txt,
          sourcefiles, parsed, idx, collections, repositories, last_update, run,
          tsrc, tree_txt, tno, tree, tpc>>

NoDump == [blocks |-> <<>>, layout |-> "separate", closed |-> TRUE, padded |-> FALSE]

\* no worker, no message: only the demuxer runs
JobsOff ==
    /\ queue = <<>>
    /\ pc = [w \in Workers |-> "off"]
    /\ status = [w \in Workers |-> "none"]
    /\ availability = [w \in Workers |-> FALSE]
    /\ content_txt = [w \in Workers |-> NoFile]
    /\ sourcefiles = [w \in Workers |-> <<>>]
    /\ parsed = [w \in Workers |-> <<>>]
    /\ idx = [w \in Workers |-> 0]
    /\ collections = <<>>
    /\ repositories = {}
    /\ last_update = [w \in Workers |-> [status |-> "none", available |-> FALSE]]
    /\ run = [w \in Workers |-> NewRun(FALSE)]

TreeOff ==
    /\ tsrc = <<>>
    /\ tree_txt = NoFile
    /\ tno = 0
    /\ tree = [stack |-> <<>>, file_names |-> <<>>]
    /\ tpc = "off"

DemuxOff ==
    /\ src = NoDump
    /\ chunks = <<>>
    /\ lines = <<>>
    /\ lineno = 0
    /\ dmx = DemuxStart(<<>>)
    /\ dpc = "returned"

\* content.txt holds one of the dumps, chunk_read cuts it by one of the sizes
DumpInit(shapes, sizes) ==
    /\ src \in shapes
    /\ chunks \in {ChunkRead(Text(Render(src)), n) : n \in sizes}
    /\ lines = <<>>
    /\ lineno = 0
    /\ dmx = DemuxStart(<<>>)
    /\ dpc = "lines"
    /\ JobsOff
    /\ TreeOff

\* a dump shorter than ChunkSize comes as one chunk: the state with that
\* chunk read and cut into its lines, which are the lines of the dump
DInit ==
    /\ src \in Shapes
    /\ chunks = <<>>
    /\ lines = Render(src)
    /\ lineno = 0
    /\ dmx = DemuxStart(<<>>)
    /\ dpc = "lines"
    /\ JobsOff
    /\ TreeOff

\* lines 197-206: the next chunk of chunk_read, decoded and cut into lines
ReadChunk ==
    /\ dpc = "lines"
    /\ lineno = Len(lines)
    /\ chunks # <<>>
    /\ lines' = SplitLines(Head(chunks))
    /\ chunks' = Tail(chunks)
    /\ lineno' = 0
    /\ UNCHANGED <<src, dmx, dpc>>
    /\ UNCHANGED jvars
    /\ UNCHANGED tvars

\* one iteration of the loop at line 207
ReadLine ==
    /\ dpc = "lines"
    /\ lineno < Len(lines)
    /\ LET nxt == DemuxLine(dmx, lines[lineno + 1]) IN
        /\ dmx' = nxt
        /\ dpc' = IF nxt.raised THEN "raised" ELSE "lines"
    /\ lineno' = lineno + 1
    /\ UNCHANGED <<src, chunks, lines>>
    /\ UNCHANGED jvars
    /\ UNCHANGED tvars

\* lines 247-263
EndOfInput ==
    /\ dpc = "lines"
    /\ lineno = Len(lines)
    /\ chunks = <<>>
    /\ LET nxt == DemuxEnd(dmx) IN
        /\ dmx' = nxt
        /\ dpc' = IF nxt.raised THEN "raised" ELSE "returned"
    /\ UNCHANGED <<src, chunks, lines, lineno>>
    /\ UNCHANGED jvars
    /\ UNCHANGED tvars

\* the loop at line 207 and what follows it
DNext == ReadLine \/ EndOfInput

SpecDemux == DInit /\ [][DNext]_vars

\* the loop at line 197 around it
CNext == ReadChunk \/ ReadLine \/ EndOfInput

\* the demuxer on one-block dumps named from ExtNames
ExtInit == DumpInit(ExtShapes, {ChunkSize})

SpecExt == ExtInit /\ [][CNext]_vars

\* dumps of at most one block, read in chunks that end inside a boundary line,
\* inside a header, inside a body line, between two lines, or hold it all
ChunkShapes ==
    [blocks : {<<>>} \cup {<<[name |-> n, body |-> b]>> : n \in Names, b \in Bodies},
     layout : {"separate"}, closed : BOOLEAN, padded : {FALSE}]
ReadSizes == {1, BoundaryWidth, BoundaryWidth + 1, BoundaryWidth + 4, ChunkSize}

\* dumps of one block named a whose body has lines of 48 "="
MaxMarkerBody == 5
MarkerShapes ==
    [blocks : {<<[name |-> <<"a">>, body |-> b]>> :
                    b \in SeqsUpTo({boundary_line, <<"x">>, LooksLikeHeader}, MaxMarkerBody)},
     layout : {"separate"}, closed : BOOLEAN, padded : {FALSE}]

MarkerInit == DumpInit(MarkerShapes, {ChunkSize})

SpecMarker == MarkerInit /\ [][CNext]_vars

ChunkInit == DumpInit(ChunkShapes, ReadSizes)

SpecChunk == ChunkInit /\ [][CNext]_vars

\* ---------------------------------------------------- _get_file_names
\* lines 147-150: tree.txt is not there
TreeMissing ==
    /\ tpc = "start"
    /\ tree_txt = NoFile
    /\ tpc' = "returned"
    /\ UNCHANGED <<tsrc, tree_txt, tno, tree>>
    /\ UNCHANGED <<dvars, jvars>>

\* lines 152-155: read the file
TreeRead ==
    /\ tpc = "start"
    /\ tree_txt # NoFile
    /\ tpc' = "lines"
    /\ UNCHANGED <<tsrc, tree_txt, tno, tree>>
    /\ UNCHANGED <<dvars, jvars>>

\* one iteration of the loop at line 159
ReadTreeLine ==
    /\ tpc = "lines"
    /\ tno < Len(tree_txt)
    /\ tree' = TreeLine(tree, tree_txt[tno + 1])
    /\ tno' = tno + 1
    /\ UNCHANGED <<tsrc, tree_txt, tpc>>
    /\ UNCHANGED <<dvars, jvars>>

\* line 174
TreeReturn ==
    /\ tpc = "lines"
    /\ tno = Len(tree_txt)
    /\ tpc' = "returned"
    /\ UNCHANGED <<tsrc, tree_txt, tno, tree>>
    /\ UNCHANGED <<dvars, jvars>>

TNext == TreeMissing \/ TreeRead \/ ReadTreeLine \/ TreeReturn

TInit ==
    /\ tsrc \in Listings(MaxTreeLines)
    /\ tree_txt \in {RenderTree(tsrc)} \cup (IF tsrc = <<>> THEN {NoFile} ELSE {})
    /\ tno = 0
    /\ tree = [stack |-> <<>>, file_names |-> <<>>]
    /\ tpc = "start"
    /\ JobsOff
    /\ DemuxOff

SpecTree == TInit /\ [][TNext]_vars

\* ------------------------------------------------------------- the worker
\* worker.py 34-70: blpop, parse the URL, write ("ingesting", False)
TakeJob(w) ==
    /\ pc[w] = "idle"
    /\ queue # <<>>
    /\ ParseRepoUrl(Head(queue)) = [raised |-> FALSE, owner |-> Owner, name |-> Name]
    /\ queue' = Tail(queue)
    /\ status' = [status EXCEPT ![w] = "ingesting"]
    /\ availability' = [availability EXCEPT ![w] = FALSE]
    /\ repositories' = UpdateRepoMetadata(repositories, Head(queue), "ingesting", FALSE)
    /\ last_update' = [last_update EXCEPT ![w] = [status |-> "ingesting", available |-> FALSE]]
    /\ run' = [run EXCEPT ![w] = [NewRun(Namespace \in DOMAIN collections) EXCEPT
                                    !.taken = TRUE, !.url = Head(queue),
                                    !.dumps = run[w].dumps,
                                    !.writes = << [status |-> "ingesting",
                                                   available |-> FALSE] >>]]
    /\ pc' = [pc EXCEPT ![w] = "fetch"]
    /\ UNCHANGED <<content_txt, sourcefiles, parsed, idx, collections>>
    /\ UNCHANGED dvars
    /\ UNCHANGED tvars

\* worker.py 34-47: blpop, then parse_repo_url raises; nothing in main()
\* catches it and the process ends
TakeJobCrash(w) ==
    /\ pc[w] = "idle"
    /\ queue # <<>>
    /\ ParseRepoUrl(Head(queue)).raised
    /\ queue' = Tail(queue)
    /\ run' = [run EXCEPT ![w] = [NewRun(Namespace \in DOMAIN collections) EXCEPT
                                    !.taken = TRUE, !.url = Head(queue),
                                    !.dumps = run[w].dumps]]
    /\ pc' = [pc EXCEPT ![w] = "crashed"]
    /\ UNCHANGED <<status, availability, content_txt, sourcefiles, parsed, idx,
                   collections, repositories, last_update>>
    /\ UNCHANGED dvars
    /\ UNCHANGED tvars

\* ingest.py 84-119: gitingest either hands out a dump, which overwrites
\* content.txt, or raises; the except clause swallows it and ingest() goes on
IngestGitRepo(w) ==
    /\ pc[w] = "fetch"
    /\ \/ \E d \in RemoteDumps :
            /\ content_txt' = [content_txt EXCEPT ![w] = d]
            /\ run' = [run EXCEPT ![w].dumps = @ \cup {d}]
       \/ /\ content_txt' = content_txt
          /\ run' = [run EXCEPT ![w].fetch_raised = TRUE]
    /\ pc' = [pc EXCEPT ![w] = "parse"]
    /\ UNCHANGED <<queue, status, availability, sourcefiles, parsed, idx, collections,
                   repositories, last_update>>
    /\ UNCHANGED dvars
    /\ UNCHANGED tvars

\* ingest.py 19-22 with worker.py 78-86: demux content.txt; nothing to ingest
\* makes ingest() return False, an exception leaves ingest()
ParseContents(w) ==
    /\ pc[w] = "parse"
    /\ LET res == IF content_txt[w] = NoFile THEN DemuxStart(sourcefiles[w])
                  ELSE ParseRepoContents(content_txt[w], sourcefiles[w])
       IN
        /\ sourcefiles' = [sourcefiles EXCEPT ![w] = res.sourcefiles]
        /\ parsed' = [parsed EXCEPT ![w] = res.file_dict]
        /\ IF res.raised THEN
                /\ status' = [status EXCEPT ![w] = "failed"]
                /\ pc' = [pc EXCEPT ![w] = "final"]
                /\ run' = [run EXCEPT ![w].parse = "raised",
                                      ![w].decoded = Len(res.file_dict)]
           ELSE IF NoFiles(content_txt[w], res.file_dict) THEN
                /\ status' = [status EXCEPT ![w] = "failed_to_ingest"]
                /\ pc' = [pc EXCEPT ![w] = "final"]
                /\ run' = [run EXCEPT ![w].parse = "returned"]
           ELSE
                /\ status' = status
                /\ pc' = [pc EXCEPT ![w] = "query"]
                /\ run' = [run EXCEPT ![w].parse = "returned",
                                      ![w].decoded = Len(res.file_dict)]
    /\ UNCHANGED <<queue, availability, content_txt, idx, collections, repositories,
                   last_update>>
    /\ UNCHANGED dvars
    /\ UNCHANGED tvars

\* ingest() returns True whatever _ingest_into_vector_store returned (25-26)
Ingested(w) ==
    /\ status' = [status EXCEPT ![w] = "ingested"]
    /\ availability' = [availability EXCEPT ![w] = TRUE]
    /\ pc' = [pc EXCEPT ![w] = "final"]

\* ingest.py 45-48 with qdrant.py 78-89: the collection is returned only if
\* the client answers and has it; a client error is swallowed into None
GetCollection(w) ==
    /\ pc[w] = "query"
    /\ \E answered \in BOOLEAN :
        LET found == answered /\ Namespace \in DOMAIN collections IN
        /\ run' = [run EXCEPT ![w].queries = @ + 1, ![w].found = found]
        /\ IF found THEN Ingested(w)
           ELSE /\ pc' = [pc EXCEPT ![w] = "create"]
                /\ UNCHANGED <<status, availability>>
    /\ UNCHANGED <<queue, content_txt, sourcefiles, parsed, idx, collections,
                   repositories, last_update>>
    /\ UNCHANGED dvars
    /\ UNCHANGED tvars

\* the other jobs in flight that have points in the collection already
UpsertedElsewhere(w) ==
    \E v \in Workers \ {w} : pc[v] \notin {"off", "idle", "crashed"}
                             /\ run[v].upserted # {}

\* ingest.py 50-61 with qdrant.py 29-64: recreate_collection drops the
\* collection and creates it empty; create_collection or get_vector_store
\* failing leaves vector_store None
CreateCollection(w) ==
    /\ pc[w] = "create"
    /\ \E created \in BOOLEAN, store \in BOOLEAN :
        /\ collections' = IF created THEN [n \in {Namespace} |-> EmptyBag] ELSE collections
        /\ run' = [run EXCEPT ![w].creates = @ + 1,
                              ![w].created = created,
                              ![w].create_failed = ~(created /\ store),
                              ![w].late_create = created /\ UpsertedElsewhere(w)]
        /\ IF created /\ store
           THEN /\ pc' = [pc EXCEPT ![w] = "files"]
                /\ idx' = [idx EXCEPT ![w] = 1]
                /\ UNCHANGED <<status, availability>>
           ELSE /\ Ingested(w)
                /\ idx' = idx
    /\ UNCHANGED <<queue, content_txt, sourcefiles, parsed, repositories, last_update>>
    /\ UNCHANGED dvars
    /\ UNCHANGED tvars

\* vector_store.add_documents: one point, with an id of its own, per document
RECURSIVE AddDocuments(_, _, _)
AddDocuments(points, name, documents) ==
    IF documents = <<>> THEN points
    ELSE AddDocuments(points (+) SetToBag({[name |-> name, text |-> Head(documents)]}),
                      name, Tail(documents))

\* what can go wrong in LangChainSplitter for one file: "infer" is an error
\* of _infer_language other than ValueError (the language file cannot be
\* opened or parsed), "read" an error of open()/read() in split(), "split"
\* an error of create_documents
ChunkFaults == {"none", "infer", "read", "split"}

\* lang_chain.py 54-66: only create_documents is inside the try of split()
CaughtInSplitter(fault) == fault = "split"

\* ingest.py 63-82: one turn of the loop over file_dict.items(); an exception
\* that leaves LangChainSplitter, or add_documents, goes to the except clause
\* at line 80, which ends the loop
UpsertFile(w) ==
    /\ pc[w] = "files"
    /\ LET file_name == parsed[w][idx[w]]
           documents == Split(sourcefiles[w][file_name])
           NextFile == IF idx[w] = Len(parsed[w])
                       THEN Ingested(w) /\ idx' = idx
                       ELSE /\ idx' = [idx EXCEPT ![w] = @ + 1]
                            /\ UNCHANGED <<pc, status, availability>>
       IN
        \E fault \in ChunkFaults :
            IF fault # "none" THEN
                /\ run' = [run EXCEPT ![w].chunk_failed = @ \cup {file_name}]
                /\ collections' = collections
                /\ IF CaughtInSplitter(fault) THEN NextFile
                   ELSE Ingested(w) /\ idx' = idx
            ELSE IF documents = <<>> THEN
                /\ run' = [run EXCEPT ![w].chunked = @ + 1]
                /\ collections' = collections
                /\ NextFile
            ELSE
                \/ /\ Namespace \in DOMAIN collections
                   /\ collections' = [collections EXCEPT
                                        ![Namespace] = AddDocuments(@, file_name, documents)]
                   /\ run' = [run EXCEPT ![w].chunked = @ + 1,
                                         ![w].submitted = @ \cup {file_name},
                                         ![w].upserted = @ \cup {file_name}]
                   /\ NextFile
                \/ /\ collections' = collections
                   /\ run' = [run EXCEPT ![w].chunked = @ + 1,
                                         ![w].submitted = @ \cup {file_name},
                                         ![w].failed_at = idx[w]]
                   /\ Ingested(w)
                   /\ idx' = idx
    /\ UNCHANGED <<queue, content_txt, sourcefiles, parsed, repositories, last_update>>
    /\ UNCHANGED dvars
    /\ UNCHANGED tvars

\* worker.py 88-97: write the final status, go back to blpop
WriteFinal(w) ==
    /\ pc[w] = "final"
    /\ repositories' = UpdateRepoMetadata(repositories, run[w].url, status[w],
                                          availability[w])
    /\ last_update' = [last_update EXCEPT
                        ![w] = [status |-> status[w], available |-> availability[w]]]
    /\ run' = [run EXCEPT ![w].done = TRUE,
                          ![w].writes = Append(@, [status |-> status[w],
                                                   available |-> availability[w]])]
    /\ pc' = [pc EXCEPT ![w] = "idle"]
    /\ UNCHANGED <<queue, status, availability, content_txt, sourcefiles, parsed, idx,
                   collections>>
    /\ UNCHANGED dvars
    /\ UNCHANGED tvars

Next ==
    \E w \in Workers :
        \/ TakeJob(w)
        \/ TakeJobCrash(w)
        \/ IngestGitRepo(w)
        \/ ParseContents(w)
        \/ GetCollection(w)
        \/ CreateCollection(w)
        \/ UpsertFile(w)
        \/ WriteFinal(w)

\* the API made the repository's document before it queued the URL, or not
JInit(active) ==
    /\ queue \in [1..MaxJobs -> QueueUrls]
    /\ pc = [w \in Workers |-> IF w \in active THEN "idle" ELSE "off"]
    /\ status = [w \in Workers |-> "none"]
    /\ availability = [w \in Workers |-> FALSE]
    /\ content_txt = [w \in Workers |-> NoFile]
    /\ sourcefiles = [w \in Workers |-> <<>>]
    /\ parsed = [w \in Workers |-> <<>>]
    /\ idx = [w \in Workers |-> 0]
    /\ collections = <<>>
    /\ repositories \in {{}, {[url |-> RepoUrl, status |-> "queued",
                               availableToConsume |-> FALSE]}}
    /\ last_update = [w \in Workers |-> [status |-> "none", available |-> FALSE]]
    /\ run = [w \in Workers |-> NewRun(FALSE)]
    /\ DemuxOff
    /\ TreeOff

\* one worker process
Init == JInit({"w1"})
Spec == Init /\ [][Next]_vars

\* two worker processes on the same queue, vector store and status store,
\* each with its own staging directory
InitConc == JInit(Workers)
SpecConc == InitConc /\ [][Next]_vars

\* ------------------------------------------------- claims on the demuxer
Finished == dpc # "lines"
LastBlock == src.blocks[Len(src.blocks)]
Stored(b) == Join(b.body) \o <<"\n">>

\* C1: a dump of N >= 0 well-formed blocks with pairwise distinct names, each
\* with its own three boundary lines, makes _parse_repo_contents return
\* exactly N records, one per block name.
C1_BoundaryCounting ==
    (Finished /\ src.layout = "separate" /\ src.closed /\ WellFormed(src.blocks))
        => /\ dpc = "returned"
           /\ Len(dmx.file_dict) = Len(src.blocks)
           /\ Range(dmx.file_dict) = BlockNames(src.blocks)

C1_Witness ==
    /\ dpc = "returned" /\ src.layout = "separate" /\ src.closed
    /\ Len(src.blocks) = 2 /\ WellFormed(src.blocks)
    /\ Len(dmx.file_dict) = 2
    /\ \E i \in 1..2 : LooksLikeHeader \in Range(src.blocks[i].body)

\* C2: when the closing boundary of each block is also the opening boundary
\* of the next block (N blocks, 2N+1 boundary lines), the demuxer emits one
\* record per block, N in total, each with that block's body.
C2_SharedBoundaries ==
    (Finished /\ src.layout = "shared" /\ src.closed /\ WellFormed(src.blocks))
        => /\ dpc = "returned"
           /\ Len(dmx.file_dict) = Len(src.blocks)
           /\ \A i \in 1..Len(src.blocks) :
                /\ src.blocks[i].name \in Range(dmx.file_dict)
                /\ src.blocks[i].name \in DOMAIN dmx.sourcefiles
                /\ dmx.sourcefiles[src.blocks[i].name] = Stored(src.blocks[i])

\* an input that ends inside the body of its last block
Unterminated ==
    /\ src.layout = "separate" /\ ~src.closed
    /\ src.blocks # <<>> /\ WellFormed(src.blocks)

\* C3 as stated: if the input ends while a block is unterminated (header and
\* body-opening boundary seen, no closing boundary), a record for that block's
\* name is emitted at end of input, for every body, a body of zero lines too.
C3_UnterminatedAlwaysFlushed ==
    (Finished /\ Unterminated)
        => (dpc = "returned" /\ LastBlock.name \in Range(dmx.file_dict))

\* C3 amended: the unterminated last block gets its record at end of input,
\* with its body, exactly when its body has at least one line; with a body of
\* zero lines no record is emitted for it.
C3_UnterminatedFlushedIfBody ==
    (Finished /\ Unterminated)
        => /\ dpc = "returned"
           /\ LastBlock.name \in Range(dmx.file_dict) <=> LastBlock.body # <<>>
           /\ LastBlock.body # <<>> =>
                /\ LastBlock.name \in DOMAIN dmx.sourcefiles
                /\ dmx.sourcefiles[LastBlock.name] = Stored(LastBlock)
           /\ Len(dmx.file_dict) = Len(src.blocks) - (IF LastBlock.body = <<>> THEN 1 ELSE 0)

C3_Witness ==
    /\ dpc = "returned" /\ Unterminated
    /\ Len(src.blocks) = 2
    /\ LastBlock.body = << <<>> >>
    /\ LastBlock.name \in Range(dmx.file_dict)

\* ------------------------------------------------- claims on the pipeline
Ingest == [status |-> "ingested", available |-> TRUE]
FailedToIngest == [status |-> "failed_to_ingest", available |-> FALSE]

\* the job has been through _parse_repo_contents and has files to ingest
HasFiles(w) == run[w].parse = "returned" /\ parsed[w] # <<>>
\* _parse_repo_contents gave no record (None or an empty dict)
ZeroRecords(w) == run[w].parse = "returned" /\ parsed[w] = <<>>

\* C4: when the namespace exists at the time a job with files to ingest runs,
\* the orchestrator skips: no create_collection call, no add_documents call,
\* no file chunked, final status `ingested`; so again for every later run.
C4_SkipExisting ==
    \A w \in Workers :
        (run[w].existed /\ HasFiles(w))
            => /\ run[w].creates = 0
               /\ run[w].submitted = {}
               /\ run[w].chunked = 0
               /\ run[w].done => last_update[w] = Ingest

\* C5: if the namespace does not exist and its creation fails (create_collection
\* returns false, or no vector store handle), the job fails: the final status
\* written is not `ingested` and available is false.
C5_CreationFailureFailsJob ==
    \A w \in Workers :
        (run[w].done /\ ~run[w].existed /\ run[w].creates > 0 /\ run[w].create_failed)
            => (last_update[w].status # "ingested" /\ ~last_update[w].available)

\* C6: if fetching the dump raises, the job ends with status `failed` and no
\* file is decoded, chunked or upserted in that run, staging files of an
\* earlier run present or not.
C6_FetchFailureFailsJob ==
    \A w \in Workers :
        run[w].fetch_raised
            => /\ run[w].decoded = 0 /\ run[w].chunked = 0 /\ run[w].submitted = {}
               /\ run[w].done => last_update[w] = [status |-> "failed", available |-> FALSE]

\* C7: if the demuxer produces zero records (content file missing, empty, or
\* without a complete block), ingest() returns false: the final status is
\* `failed_to_ingest` with available = false, and the run makes no namespace
\* query, no namespace creation and no upsert.
C7_NoFilesDecoded ==
    \A w \in Workers :
        ZeroRecords(w)
            => /\ run[w].queries = 0 /\ run[w].creates = 0
               /\ run[w].submitted = {} /\ run[w].chunked = 0
               /\ status[w] = "failed_to_ingest" /\ ~availability[w]
               /\ pc[w] \in {"final", "idle"}
               /\ run[w].done => last_update[w] = FailedToIngest

\* content.txt of an earlier run is there and holds no block, the collection too
C7_Witness ==
    /\ ZeroRecords("w1") /\ run["w1"].done
    /\ content_txt["w1"] \notin {NoFile, <<>>}
    /\ Namespace \in DOMAIN collections
    /\ last_update["w1"] = FailedToIngest

\* C8: when the upsert of one file's chunks raises, that file is skipped and
\* the job goes on: every later file of the job with a non-empty chunk
\* sequence is still submitted for upsert.
C8_UpsertFailureSkipsFile ==
    \A w \in Workers :
        (run[w].done /\ run[w].failed_at > 0)
            => \A i \in (run[w].failed_at + 1)..Len(parsed[w]) :
                    Split(sourcefiles[w][parsed[w][i]]) # <<>>
                        => parsed[w][i] \in run[w].submitted

\* C9: the ingestion path never deletes or empties a namespace: chunks that the
\* namespace holds before a step of a job are still there after the step,
\* whatever the existence query answers.
C9_NamespaceKept ==
    [][(Namespace \in DOMAIN collections /\ collections[Namespace] # EmptyBag)
        => /\ Namespace \in DOMAIN collections'
           /\ collections[Namespace] \sqsubseteq collections'[Namespace]]_vars

InFlight(w) == pc[w] \notin {"off", "idle", "crashed"}

\* C10: with two jobs for the same repository running in two workers, the
\* creation of the namespace is a critical section: never have both jobs gone
\* through the creation, and no job creates after the other has upserted.
C10_CreationIsCritical ==
    \A w \in Workers : \A v \in Workers \ {w} :
        (InFlight(w) /\ InFlight(v))
            => /\ ~(run[w].created /\ run[v].created)
               /\ ~run[w].late_create

\* the files of the job that split() gives at least one chunk for
WithChunks(w) == {n \in Range(parsed[w]) : Split(sourcefiles[w][n]) # <<>>}

RECURSIVE Copies(_, _)
Copies(S, B) ==
    IF S = {} THEN 0
    ELSE LET p == CHOOSE q \in S : TRUE IN CopiesIn(p, B) + Copies(S \ {p}, B)

\* number of chunk batches the namespace holds for a file (one chunk a batch)
Batches(n) ==
    IF Namespace \notin DOMAIN collections THEN 0
    ELSE LET B == collections[Namespace] IN
         Copies({p \in BagToSet(B) : p.name = n}, B)

\* C11: chunks are loaded exactly once: when a run for the repository has
\* ended with status `ingested`, the namespace holds the chunk batch of every
\* decoded file that has a non-empty chunk sequence, once, not zero times and
\* not twice.
C11_LoadedExactlyOnce ==
    \A w \in Workers :
        (run[w].done /\ last_update[w] = Ingest /\ HasFiles(w))
            => \A n \in WithChunks(w) : Batches(n) = 1

\* the job went for the upsert (no skip) and left a file with chunks out /
\* each file with chunks was upserted by the job
Gaps(w) == HasFiles(w) /\ run[w].queries > 0 /\ ~run[w].found
           /\ WithChunks(w) \ run[w].upserted # {}
Complete(w) == HasFiles(w) /\ WithChunks(w) \subseteq run[w].upserted

\* C12: the final (status, available) pair tells `ingested with gaps` from
\* `ingested`: a job in which the chunks of some file were not upserted does
\* not write the pair that a job writes in which every file's chunks were.
C12_GapsAreVisible ==
    \A w \in Workers : \A v \in Workers \ {w} :
        (run[w].done /\ run[v].done /\ Gaps(w) /\ Complete(v))
            => last_update[w] # last_update[v]

FinalStatuses == {"ingested", "failed_to_ingest", "failed"}

\* C13: for every message taken from the queue, whatever its URL and whatever
\* the pipeline does, `ingesting` with available = false is written before the
\* pipeline runs and a final status out of {ingested, failed_to_ingest, failed}
\* afterwards; the worker then waits for the next message.
C13_TwoUpdatesPerMessage ==
    \A w \in Workers :
        run[w].taken
            => /\ InFlight(w) => last_update[w] = [status |-> "ingesting", available |-> FALSE]
               /\ ~InFlight(w) => /\ pc[w] = "idle"
                                  /\ run[w].done
                                  /\ last_update[w].status \in FinalStatuses

\* ------------------------------------------- more claims on the demuxer
\* C14: an I/O error while materializing one decoded file is that file's
\* failure only: the demuxer still returns, and every other block of the dump
\* is decoded and materialized.
C14_MaterializeFailureIsLocal ==
    (Finished /\ src.layout = "separate" /\ src.closed /\ DistinctNames(src.blocks))
        => /\ dpc = "returned"
           /\ \A i \in 1..Len(src.blocks) :
                ~WriteRaises(src.blocks[i].name)
                    => /\ src.blocks[i].name \in Range(dmx.file_dict)
                       /\ src.blocks[i].name \in DOMAIN dmx.sourcefiles
                       /\ dmx.sourcefiles[src.blocks[i].name] = Stored(src.blocks[i])

\* a dump of exactly one well-formed block, closed by its own boundary
OneBlock ==
    /\ Len(src.blocks) = 1 /\ WellFormed(src.blocks)
    /\ src.layout = "separate" /\ src.closed

\* C18 as stated: for a dump of exactly one well-formed block with body lines
\* L, the content stored for the record, split on "\n", gives back exactly L:
\* the stored content is the body lines joined with "\n" and nothing more.
C18_RoundTripExact ==
    (Finished /\ OneBlock)
        => /\ dpc = "returned"
           /\ LastBlock.name \in DOMAIN dmx.sourcefiles
           /\ SplitOn(dmx.sourcefiles[LastBlock.name], "\n") = LastBlock.body

\* C18 amended: the stored content is the body lines joined with "\n" and
\* then one terminating "\n"; split on "\n" it gives back L followed by one
\* empty string (for zero body lines: the split of "\n", two empty strings).
C18_RoundTripTerminated ==
    (Finished /\ OneBlock)
        => /\ dpc = "returned"
           /\ LastBlock.name \in DOMAIN dmx.sourcefiles
           /\ SplitOn(dmx.sourcefiles[LastBlock.name], "\n")
                = (IF LastBlock.body = <<>> THEN << <<>> >> ELSE LastBlock.body)
                  \o << <<>> >>

C18_Witness ==
    /\ dpc = "returned" /\ OneBlock
    /\ Len(LastBlock.body) = 2
    /\ LastBlock.name \in DOMAIN dmx.sourcefiles
    /\ Len(SplitOn(dmx.sourcefiles[LastBlock.name], "\n")) = 3

AllSet(st) == st.file_marker = <<TRUE, TRUE, TRUE>>
\* the latest boundary line consumed so far: with all three flags set it is
\* the boundary that opened the body
OpenedAt ==
    CHOOSE k \in 0..lineno :
        /\ k > 0 => lines[k] = boundary_line
        /\ \A j \in (k + 1)..lineno : lines[j] # boundary_line
WrittenBefore(name) ==
    IF name \in DOMAIN dmx.sourcefiles THEN dmx.sourcefiles[name] ELSE <<>>

\* C20: while all three flags are set, every line that is not a boundary, one
\* starting with `FILE: ` too, is appended to the body in arrival order and
\* leaves the file name alone; the record written at the closing boundary has
\* as body exactly the lines between the body-opening boundary and that
\* closing boundary, in order.
C20_BodyLinesAppended ==
    [][(dpc = "lines" /\ AllSet(dmx) /\ lineno' = lineno + 1)
        => IF lines[lineno'] # boundary_line
           THEN /\ dmx'.file_content = Append(dmx.file_content, lines[lineno'])
                /\ dmx'.file_name = dmx.file_name
                /\ AllSet(dmx')
           ELSE ~WriteRaises(dmx.file_name)
                    => /\ dmx.file_name \in DOMAIN dmx'.sourcefiles
                       /\ dmx'.sourcefiles[dmx.file_name]
                            = WrittenBefore(dmx.file_name)
                              \o Join(SubSeq(lines, OpenedAt + 1, lineno)) \o <<"\n">>]_vars

C20_Witness ==
    /\ dpc = "lines" /\ AllSet(dmx)
    /\ dmx.file_name = <<"a">>
    /\ dmx.file_content = << <<"x">>, LooksLikeHeader >>

\* ------------------------------------------ more claims on the pipeline
\* C19: a job goes through NotStarted, FetchingDump, Decoding, Chunking, then
\* SkippedExisting or Upserting, then Done or Failed, in that order: a phase is
\* entered only if the one before it succeeded (no decoding after a fetch that
\* raised, no upserting after a creation that failed), and every file of the
\* job is chunked before the skip-or-upsert decision is taken.
C19_PhaseOrder ==
    \A w \in Workers :
        /\ pc[w] \in {"parse", "query", "create", "files"} => ~run[w].fetch_raised
        /\ pc[w] \in {"query", "create", "files"} => run[w].chunked = Len(parsed[w])
        /\ pc[w] = "files" => ~run[w].create_failed

\* C16: a chunking error for one file (building the splitter, inferring the
\* language, reading the file, splitting it) is confined to that file: no
\* chunk of it is submitted, and every sibling file of the job is still
\* chunked, and submitted if it has chunks.
C16_ChunkingErrorIsLocal ==
    \A w \in Workers :
        (run[w].done /\ run[w].chunk_failed # {} /\ run[w].failed_at = 0)
            => /\ run[w].chunk_failed \cap run[w].submitted = {}
               /\ run[w].chunked = Len(parsed[w]) - Cardinality(run[w].chunk_failed)
               /\ WithChunks(w) \ run[w].chunk_failed \subseteq run[w].submitted

\* ----------------------------------------------- claims on the extension
\* str.lower() on the letters of ExtChars
Lower(s) == [i \in 1..Len(s) |-> IF s[i] = "M" THEN "m" ELSE s[i]]
\* the suffix of the name from its last dot on, empty if it has no dot
LastDotSuffix(name) ==
    IF RFind(name, ".") = 0 THEN <<>> ELSE SubSeq(name, RFind(name, "."), Len(name))

\* C15: the extension recorded for a file name is the lower-cased suffix from
\* the last dot of the name on (empty if there is no dot), so names that
\* differ only in the letter case of the extension get the same extension.
\* Stated for the names that do not begin with a dot, where the suffix from
\* the last dot on is what splitext takes for the extension.
C15_ExtensionLowerCased ==
    \A n \in DOMAIN dmx.extension :
        n[1] # "." => dmx.extension[n] = Lower(LastDotSuffix(n))

\* ------------------------------------------- claims on the tree decoder
\* the matching line before line i, 0 if there is none
PrevNode(ns, i) ==
    LET before == {j \in 1..(i - 1) : ~ns[j].junk} IN
    IF before = {} THEN 0 ELSE CHOOSE j \in before : \A m \in before : m <= j

\* the first matching line is at depth 0, a line is at most one level deeper
\* than the matching line before it, and deeper only after a directory
WellFormedListing(ns) ==
    \A i \in 1..Len(ns) :
        ~ns[i].junk =>
            LET p == PrevNode(ns, i) IN
            IF p = 0 THEN ns[i].depth = 0
            ELSE /\ ns[i].depth <= ns[p].depth + 1
                 /\ ns[i].depth > ns[p].depth => ns[p].kind.dir

\* the directory open at level k when line i arrives
Ancestor(ns, i, k) ==
    LET at == {j \in 1..(i - 1) : ~ns[j].junk /\ ns[j].depth = k} IN
    CHOOSE j \in at : \A m \in at : m <= j

FileLines(ns) == {i \in 1..Len(ns) : ~ns[i].junk /\ ~ns[i].kind.dir}
\* the r-th file line of the listing
NthFile(ns, r) ==
    CHOOSE i \in FileLines(ns) : Cardinality({j \in FileLines(ns) : j < i}) = r - 1

\* C17: for a well-formed listing, every path returned by _get_file_names has
\* depth+1 segments, depth being the indent of the file's line divided by 4:
\* the names of the open ancestor directories in order, then the file's own
\* name; and a node whose name ends in "/" gets no path.
C17_PathsFollowDepth ==
    (tpc = "returned" /\ tree_txt # NoFile /\ WellFormedListing(tsrc))
        => /\ Len(tree.file_names) = Cardinality(FileLines(tsrc))
           /\ \A r \in 1..Len(tree.file_names) :
                LET i == NthFile(tsrc, r)
                    segments == SplitOn(tree.file_names[r], "/")
                IN /\ Len(segments) = tsrc[i].depth + 1
                   /\ \A k \in 1..tsrc[i].depth :
                        segments[k] = tsrc[Ancestor(tsrc, i, k - 1)].kind.name
                   /\ segments[Len(segments)] = tsrc[i].kind.name

C17_Witness ==
    /\ tpc = "returned" /\ WellFormedListing(tsrc)
    /\ Len(tsrc) = 3
    /\ ~tsrc[1].junk /\ tsrc[1].kind.target = <<>>
    /\ ~tsrc[2].junk /\ tsrc[2].depth = 1 /\ tsrc[2].kind.target # <<>>
    /\ ~tsrc[3].junk /\ tsrc[3].depth = 2 /\ ~tsrc[3].kind.dir
    /\ tsrc[3].kind.target # <<>>
    /\ tree.file_names = << <<"d", "/", "l", "/", "l">> >>

\* ------------------------------------------- claims on the read chunks
\* the dump taken as a single chunk
WholeDump == DemuxAll(DemuxStart(<<>>), SplitLines(Text(Render(src))))

\* C22: however content.txt is cut into read chunks, the demuxer returns the
\* same record names, and the same body for each name, as for the whole dump
\* taken as a single chunk.
C22_ChunkingIsInvisible ==
    Finished
        => /\ dpc = (IF WholeDump.raised THEN "raised" ELSE "returned")
           /\ Range(dmx.file_dict) = Range(WholeDump.file_dict)
           /\ dmx.sourcefiles = WholeDump.sourcefiles

\* ------------------------------------ more claims on the demuxer's state
\* C23: after every processed line the flags (seen_open, seen_header,
\* seen_body_open) are (F,F,F), (T,F,F), (T,T,F) or (T,T,T); a file name is
\* held if and only if seen_header is set; and the body buffer holds lines
\* only when all three flags are set.
C23_FlagsAreNested ==
    /\ dmx.file_marker \in {<<FALSE, FALSE, FALSE>>, <<TRUE, FALSE, FALSE>>,
                            <<TRUE, TRUE, FALSE>>, <<TRUE, TRUE, TRUE>>}
    /\ dmx.file_name # None <=> dmx.file_marker[2]
    /\ dmx.file_content # <<>> => AllSet(dmx)

C23_Witness ==
    /\ dpc = "lines"
    /\ Len(dmx.file_dict) = 1
    /\ dmx.file_marker = <<TRUE, TRUE, FALSE>>
    /\ dmx.file_name \in Names
    /\ dmx.file_content = <<>>

\* --------------------------------- claims on boundary lines in a body
\* the lines stored for a name
StoredLines(st, name) == SplitOn(st.sourcefiles[name], "\n")
HasMarker(body) == boundary_line \in Range(body)
FirstMarker(body) ==
    CHOOSE i \in 1..Len(body) :
        body[i] = boundary_line /\ \A j \in 1..(i - 1) : body[j] # boundary_line

\* no stored body holds a boundary line
NoMarkerStored(st) ==
    \A n \in DOMAIN st.sourcefiles : boundary_line \notin Range(StoredLines(st, n))

\* a boundary line that arrives with all three flags set writes the record
\* with the lines before it and resets flags, body and name
ClosesLikeBoundary ==
    (dpc = "lines" /\ AllSet(dmx) /\ lineno' = lineno + 1 /\ lines[lineno'] = boundary_line)
        => /\ dmx.file_name \in DOMAIN dmx'.sourcefiles
           /\ dmx'.sourcefiles[dmx.file_name]
                = WrittenBefore(dmx.file_name) \o Join(dmx.file_content) \o <<"\n">>
           /\ dmx'.file_marker = NoMarker
           /\ dmx'.file_content = <<>>
           /\ dmx'.file_name = None

\* C21 as stated: no record's body holds a line equal to the boundary line; a
\* body line equal to it is handled like a closing boundary (record written
\* with the lines before it, flags reset), and the lines of the file after it
\* are not added to any record: the file's record holds the lines before the
\* first such line and any other record holds no line at all.
C21_MarkerEndsFile ==
    [][/\ NoMarkerStored(dmx')
       /\ ClosesLikeBoundary
       /\ (dpc' = "returned" /\ HasMarker(LastBlock.body))
            => /\ dmx'.file_dict[1] = LastBlock.name
               /\ dmx'.sourcefiles[LastBlock.name]
                    = Join(SubSeq(LastBlock.body, 1, FirstMarker(LastBlock.body) - 1))
                      \o <<"\n">>
               /\ \A n \in DOMAIN dmx'.sourcefiles \ {LastBlock.name} :
                    dmx'.sourcefiles[n] = <<"\n">>]_vars

\* C21 amended: no record's body holds a line equal to the boundary line; a
\* body line equal to it is handled like a closing boundary (record written
\* with the lines before it, flags reset), so the record of the file holds the
\* lines before its first such line; the lines after it are read as the lines
\* after a closing boundary, which can open a block of their own.
C21_MarkerClosesRecord ==
    [][/\ NoMarkerStored(dmx')
       /\ ClosesLikeBoundary
       /\ (dpc' = "returned" /\ HasMarker(LastBlock.body))
            => /\ dmx'.file_dict[1] = LastBlock.name
               /\ dmx'.sourcefiles[LastBlock.name]
                    = Join(SubSeq(LastBlock.body, 1, FirstMarker(LastBlock.body) - 1))
                      \o <<"\n">>]_vars

C21_Witness ==
    /\ dpc = "returned"
    /\ LastBlock.body = <<boundary_line, boundary_line, LooksLikeHeader, boundary_line, <<"x">> >>
    /\ dmx.file_dict = << <<"a">>, <<"b">> >>
    /\ dmx.sourcefiles[<<"b">>] = <<"x", "\n">>

\* ------------------------------------------ claims on the status store
Ingesting == [status |-> "ingesting", available |-> FALSE]
FinalPairs == {Ingest, FailedToIngest, [status |-> "failed", available |-> FALSE]}
Urls(docs) == {d.url : d \in docs}

\* C25: available is written true only together with `ingested`: the pairs a
\* job writes are (ingesting, false) first and then exactly one of
\* (ingested, true), (failed_to_ingest, false), (failed, false), the last
\* when the job is done; and no update creates a status record: the store
\* holds records for the same URLs before and after every step.
C25_AvailableOnlyWhenIngested ==
    [][/\ \A w \in Workers :
            /\ run'[w].writes \in {<<>>, <<Ingesting>>} \cup {<<Ingesting, f>> : f \in FinalPairs}
            /\ run'[w].done <=> Len(run'[w].writes) = 2
            /\ InFlight(w)' => run'[w].writes = <<Ingesting>>
       /\ \A d \in repositories' : d.availableToConsume => d.status = "ingested"
       /\ Urls(repositories') = Urls(repositories)]_vars

C25_Witness ==
    /\ run["w1"].done /\ run["w1"].url = RepoUrl \o <<"/">>
    /\ run["w1"].writes = <<Ingesting, Ingest>>
    /\ repositories = {[url |-> RepoUrl, status |-> "ingested", availableToConsume |-> TRUE]}

\* ------------------------------------------- claims on the staged files
\* how the dump in content.txt was made
DumpShape(content) == CHOOSE sh \in RemoteShapes : Render(sh) = content

\* C24: after any sequence of job runs for the repository over the same dump
\* (runs that failed or were skipped too), the staged file of each name holds
\* that file's body exactly once.
C24_StagedExactlyOnce ==
    \A w \in Workers :
        (HasFiles(w) /\ run[w].dumps = {content_txt[w]})
            => LET blocks == DumpShape(content_txt[w]).blocks IN
               \A i \in 1..Len(blocks) :
                    /\ blocks[i].name \in DOMAIN sourcefiles[w]
                    /\ sourcefiles[w][blocks[i].name] = Stored(blocks[i])

====
